---- MODULE Spec2Model ----
(***************************************************************************)
(* Course portal (src/app.py): a JSON file used as a course catalog, the   *)
(* two store functions load_courses / save_courses, and the three request  *)
(* handlers course_catalog, course_details and add_course that use them.   *)
(*                                                                         *)
(* The backing file is the text it holds, byte for byte (the dump is       *)
(* ASCII, one byte per character).  A request is served by a worker; its   *)
(* steps are the file-system accesses of the handler, so that two requests *)
(* can interleave exactly where the code has no lock.                      *)
(***************************************************************************)
EXTENDS Integers, Sequences, FiniteSets, TLC

\* ------------------------------------------------------------------ bounds
\* Number of add_course requests that pass validation in one run.
MaxAppends == 3

\* Length of the long course name, which makes a dump larger than the
\* buffer of the text writer.
LongLen == 8300

\* The workers of the server: two requests can be in flight at once.
Procs == {"w1", "w2"}

\* ------------------------------------------------------------ Python values
\* None, a str, a list of values, a dict (its items in insertion order, each
\* a key and a value).
PyNone == [type |-> "NoneType", val |-> "", items |-> <<>>]
PyStr(s) == [type |-> "str", val |-> s, items |-> <<>>]
PyList(xs) == [type |-> "list", val |-> "", items |-> xs]
PyDict(kvs) == [type |-> "dict", val |-> "", items |-> kvs]

\* Python truthiness: None, '', [] and {} are falsy.
Truthy(v) ==
    CASE v.type = "str" -> v.val # ""
      [] v.type \in {"list", "dict"} -> Len(v.items) > 0
      [] OTHER -> FALSE

\* `key in d` and `d[key]` of a dict.
HasKey(d, k) == \E i \in 1..Len(d.items) : d.items[i].key = k
GetItem(d, k) == d.items[CHOOSE i \in 1..Len(d.items) : d.items[i].key = k].value

\* d[k] = v on the items of a dict: a key already present keeps its place.
SetItem(kvs, k, v) ==
    IF \E i \in 1..Len(kvs) : kvs[i].key = k
    THEN [i \in 1..Len(kvs) |->
            IF kvs[i].key = k THEN [key |-> k, value |-> v] ELSE kvs[i]]
    ELSE Append(kvs, [key |-> k, value |-> v])

\* ------------------------------------------------------------------ strings
\* s repeated n times.
RECURSIVE Rep(_, _)
Rep(s, n) ==
    CASE n <= 0 -> ""
      [] n > 0 /\ n % 2 = 1 -> s \o Rep(s, n - 1)
      [] n > 0 /\ n % 2 = 0 -> LET h == Rep(s, n \div 2) IN h \o h

\* s[a-1:b] of Python, positions counted from 1.
Slice(s, a, b) == IF a > b THEN "" ELSE SubSeq(s, a, b)

\* The character at position i.
Ch(s, i) == SubSeq(s, i, i)

\* The first position from i on whose character is in cs (is not in cs);
\* Len(s) + 1 when there is none.
FirstIn(s, i, cs) ==
    CHOOSE j \in i..(Len(s) + 1) :
        /\ j = Len(s) + 1 \/ SubSeq(s, j, j) \in cs
        /\ \A k \in i..(j - 1) : SubSeq(s, k, k) \notin cs

FirstNotIn(s, i, cs) ==
    CHOOSE j \in i..(Len(s) + 1) :
        /\ j = Len(s) + 1 \/ SubSeq(s, j, j) \notin cs
        /\ \A k \in i..(j - 1) : SubSeq(s, k, k) \in cs

\* The strings a to b of a sequence of strings, joined.
RECURSIVE ConcatRange(_, _, _)
ConcatRange(chunks, a, b) ==
    CASE a > b -> ""
      [] a = b -> chunks[a]
      [] a < b -> ConcatRange(chunks, a, (a + b) \div 2)
                     \o ConcatRange(chunks, (a + b) \div 2 + 1, b)

Concat(chunks) == ConcatRange(chunks, 1, Len(chunks))

\* The sequences a to b of a sequence of sequences, joined.
RECURSIVE FlatRange(_, _, _)
FlatRange(parts, a, b) ==
    CASE a > b -> <<>>
      [] a = b -> parts[a]
      [] a < b -> FlatRange(parts, a, (a + b) \div 2)
                     \o FlatRange(parts, (a + b) \div 2 + 1, b)

\* ------------------------------------------------------------------- forms
FormKeys == {"name", "semester", "schedule", "code", "instructor",
             "grade", "des", "class", "pre"}

\* The fields tested by the validation of add_course, in the order tested.
RequiredKeys == <<"name", "instructor", "semester", "schedule",
                  "code", "grade", "class">>

\* The keys of the new_course dict literal, in the order written, and the
\* form field each of them takes.
CourseFields == <<"code", "name", "instructor", "semester", "schedule",
                  "classroom", "prerequisites", "grading", "description">>
FormField == <<"code", "name", "instructor", "semester", "schedule",
               "class", "pre", "grade", "des">>

Codes == {"CS101", "CS999"}

\* A complete submission.
GoodForm(code, des, pre) ==
    [k \in FormKeys |->
        CASE k = "name"       -> PyStr("Intro")
          [] k = "semester"   -> PyStr("Fall")
          [] k = "schedule"   -> PyStr("MWF")
          [] k = "code"       -> code
          [] k = "instructor" -> PyStr("A")
          [] k = "grade"      -> PyStr("Letter")
          [] k = "des"        -> des
          [] k = "class"      -> PyStr("101")
          [] k = "pre"        -> pre]

ValidForms ==
    {GoodForm(PyStr("CS101"), PyNone, PyNone),
     GoodForm(PyStr("CS999"), PyStr(""), PyNone),
     GoodForm(PyStr("CS101"), PyStr(""), PyStr("Basic Python, Linux")),
     GoodForm(PyStr("CS101"), PyStr("x"), PyStr("C:\\lab \"one\"\n"))}

\* Submissions with one required field missing (None) or empty ('').
InvalidForms ==
    {[GoodForm(PyStr("CS101"), PyNone, PyNone) EXCEPT ![RequiredKeys[i]] = bad] :
        i \in 1..Len(RequiredKeys), bad \in {PyNone, PyStr("")}}
    \cup {[k \in FormKeys |-> PyNone], [k \in FormKeys |-> PyStr("")]}

Forms == ValidForms \cup InvalidForms

\* The submissions of the concurrent runs: a course, and a rejected
\* submission.
FewForms ==
    {GoodForm(PyStr("CS101"), PyNone, PyNone),
     [GoodForm(PyStr("CS101"), PyNone, PyNone) EXCEPT !["class"] = PyStr("")]}

\* A course whose name is LongLen characters long.
LongName == Rep("n", LongLen)
LongForm(code, des) ==
    [GoodForm(PyStr(code), des, PyNone) EXCEPT !["name"] = PyStr(LongName)]

LongForms == {LongForm("CS101", PyStr("fromw1")), LongForm("CS999", PyStr("fromw2"))}

\* The submissions of the runs of two concurrent submissions: two short
\* courses whose records differ in length, and two long ones.
RaceForms ==
    {GoodForm(PyStr("CS101"), PyNone, PyNone),
     GoodForm(PyStr("CS999"), PyStr("Basic Python labs"), PyNone)} \cup LongForms

\* The submissions of the runs in which the process may stop, and of those
\* with one writer: a short course and a long one.
ShortForm == GoodForm(PyStr("CS101"), PyNone, PyNone)
MixedForms == {ShortForm, LongForm("CS999", PyStr(""))}

\* ---------------------------------------------------------- add_course body
\* Variant of MissingFields: the test of class_ is left out.
MissingFieldsNoClass(f) ==
    \E i \in 1..(Len(RequiredKeys) - 1) : ~Truthy(f[RequiredKeys[i]])

\* `not name or not instructor or not semester or not schedule or not code
\*  or not grade or not class_`
MissingFields(f) ==
    \E i \in 1..Len(RequiredKeys) : ~Truthy(f[RequiredKeys[i]])

\* The new_course dict literal.
NewCourse(f) ==
    PyDict([i \in 1..Len(CourseFields) |->
               [key |-> CourseFields[i], value |-> f[FormField[i]]]])

\* ------------------------------------------------------------- JSON encoding
\* json.dump(courses, file, indent=4) hands the text to file.write chunk by
\* chunk, as the encoder yields it.

\* The indent argument of json.dump.
Indent == 4

\* The replacement of a character inside a JSON string (ensure_ascii); the
\* characters of the values here are printable ASCII and \n, \r, \t, \f.
EscapeChar(c) ==
    CASE c = "\"" -> "\\\""
      [] c = "\\" -> "\\\\"
      [] c = "\n" -> "\\n"
      [] c = "\r" -> "\\r"
      [] c = "\t" -> "\\t"
      [] c = "\f" -> "\\f"
      [] OTHER    -> c

Escaped == {"\"", "\\", "\n", "\r", "\t", "\f"}

RECURSIVE Escape(_)
Escape(s) ==
    CASE \A i \in 1..Len(s) : Ch(s, i) \notin Escaped -> s
      [] Len(s) = 1 /\ s \in Escaped -> EscapeChar(s)
      [] Len(s) > 1 /\ \E i \in 1..Len(s) : Ch(s, i) \in Escaped ->
            Escape(SubSeq(s, 1, Len(s) \div 2))
               \o Escape(SubSeq(s, Len(s) \div 2 + 1, Len(s)))

\* A str as a JSON string.
EncodeStr(s) == "\"" \o Escape(s) \o "\""

\* Variant of JsonScalar: None is written as the empty string.
JsonScalarNoneAsEmpty(v) == EncodeStr(v.val)

\* A str is written as a quoted string, None as null.
JsonScalar(v) ==
    IF v.type = "NoneType" THEN "null" ELSE EncodeStr(v.val)

\* The line break and the indentation of nesting depth level.
NewlineIndent(level) == "\n" \o Rep(" ", Indent * level)

\* The chunks the encoder yields for value v at nesting depth level.
RECURSIVE IterEncode(_, _)

\* The i-th item of a list: a str or None is yielded together with the
\* separator before it, a list or a dict after it.
ListItem(xs, i, level) ==
    IF xs[i].type \in {"list", "dict"}
    THEN <<(IF i = 1 THEN "[" ELSE ",") \o NewlineIndent(level)>>
            \o IterEncode(xs[i], level)
    ELSE <<(IF i = 1 THEN "[" ELSE ",") \o NewlineIndent(level)
              \o JsonScalar(xs[i])>>

\* The i-th item of a dict: separator, key, ': ' and value.
DictItem(kvs, i, level) ==
    (IF i = 1 THEN <<>> ELSE <<"," \o NewlineIndent(level)>>)
       \o <<EncodeStr(kvs[i].key), ": ">>
       \o IterEncode(kvs[i].value, level)

IterEncode(v, level) ==
    CASE v.type = "list" /\ Len(v.items) = 0 -> <<"[]">>
      [] v.type = "list" /\ Len(v.items) > 0 ->
            FlatRange([i \in 1..Len(v.items) |-> ListItem(v.items, i, level + 1)],
                      1, Len(v.items))
               \o <<NewlineIndent(level), "]">>
      [] v.type = "dict" /\ Len(v.items) = 0 -> <<"{}">>
      [] v.type = "dict" /\ Len(v.items) > 0 ->
            <<"{", NewlineIndent(level + 1)>>
               \o FlatRange([i \in 1..Len(v.items) |->
                                DictItem(v.items, i, level + 1)],
                            1, Len(v.items))
               \o <<NewlineIndent(level), "}">>
      [] v.type \in {"str", "NoneType"} -> <<JsonScalar(v)>>

\* The whole text of the dump.
JsonDump(v) == Concat(IterEncode(v, 0))

\* ------------------------------------------------------------- JSON decoding
\* json.load(file): the decoder on the whole text of the file.  A result is
\* the value read and the position after it, or the failure.
Whitespace == {" ", "\t", "\n", "\r"}

\* The zero byte of a hole in the file, written as the form feed: like the
\* zero byte it is a control character that no dump contains and that the
\* decoder accepts nowhere.
Nul == "\f"

\* Characters that may not occur inside a JSON string (strict mode).
ControlChars == {"\n", "\r", "\t", Nul}

Good(v, e) == [ok |-> TRUE, value |-> v, end |-> e, err |-> ""]
\* JSONDecodeError.
Fail == [ok |-> FALSE, value |-> PyNone, end |-> 0, err |-> "JSONDecodeError"]
\* The text holds a value or an escape that the values above do not cover:
\* a number, true, false, NaN, Infinity, \b, \/ or \uXXXX.
NotModelled == [ok |-> FALSE, value |-> PyNone, end |-> 0, err |-> "NotModelled"]

OtherLiteralStart == {"t", "f", "N", "I", "-", "0", "1", "2", "3", "4", "5",
                      "6", "7", "8", "9"}

\* The character an escape sequence stands for.
Unescape(c) ==
    CASE c = "\"" -> "\""
      [] c = "\\" -> "\\"
      [] c = "n"  -> "\n"
      [] c = "r"  -> "\r"
      [] c = "t"  -> "\t"
      [] c = "f"  -> "\f"

\* The characters at which the scan of a string stops.
StringEnds == {"\"", "\\"} \cup ControlChars

\* What stops the scan of a string at position j, the string read up to
\* there and the position to go on from: its closing quote ("end"), an
\* escape sequence ("escape", the character it stands for is added), or
\* what makes the string invalid.
StringStop(s, i, j, acc) ==
    IF j > Len(s) THEN [kind |-> "fail", str |-> "", next |-> 0]
    ELSE IF Ch(s, j) = "\""
         THEN [kind |-> "end", str |-> acc \o Slice(s, i, j - 1), next |-> j + 1]
    ELSE IF Ch(s, j) \in ControlChars THEN [kind |-> "fail", str |-> "", next |-> 0]
    ELSE IF j + 1 > Len(s) THEN [kind |-> "fail", str |-> "", next |-> 0]
    ELSE IF Ch(s, j + 1) \in {"\"", "\\", "n", "r", "t", "f"}
         THEN [kind |-> "escape",
               str |-> acc \o Slice(s, i, j - 1) \o Unescape(Ch(s, j + 1)),
               next |-> j + 2]
    ELSE IF Ch(s, j + 1) \in {"b", "/", "u"}
         THEN [kind |-> "notmodelled", str |-> "", next |-> 0]
    ELSE [kind |-> "fail", str |-> "", next |-> 0]

\* scanstring: the string whose opening quote is before position i; acc is
\* what was read of it so far.
RECURSIVE ScanString(_, _, _)
ScanString(s, i, acc) ==
    LET After(stop) ==
            CASE stop.kind = "escape" -> ScanString(s, stop.next, stop.str)
              [] stop.kind = "end" -> Good(PyStr(stop.str), stop.next)
              [] stop.kind = "fail" -> Fail
              [] stop.kind = "notmodelled" -> NotModelled
    IN  After(StringStop(s, i, FirstIn(s, i, StringEnds), acc))

SkipWs(s, i) == FirstNotIn(s, i, Whitespace)

RECURSIVE ScanOnce(_, _)

\* The outcome of reading one item of an array or one member of an object:
\* the array or object ends here with this result, or it goes on at
\* position pos, these items read.
Ends(r) == [more |-> FALSE, result |-> r, items |-> <<>>, pos |-> 0]
GoesOn(items, pos) == [more |-> TRUE, result |-> Fail, items |-> items, pos |-> pos]

\* One item of an array, its first character at position i; acc is the
\* list of the items read before it.  After the item r, at position after,
\* the array closes or a comma leads to the next item.
ArrayItem(s, i, acc) ==
    LET Closes(items, after) ==
            IF after > Len(s) THEN Ends(Fail)
            ELSE IF Ch(s, after) = "]"
                 THEN Ends(Good(PyList(items), after + 1))
            ELSE IF Ch(s, after) # "," THEN Ends(Fail)
            ELSE GoesOn(items, SkipWs(s, after + 1))
        Follows(r) ==
            IF ~r.ok THEN Ends(r)
            ELSE Closes(Append(acc, r.value), SkipWs(s, r.end))
    IN  Follows(ScanOnce(s, i))

RECURSIVE ArrayItems(_, _, _)
ArrayItems(s, i, acc) ==
    LET After(item) ==
            CASE item.more -> ArrayItems(s, item.pos, item.items)
              [] ~item.more -> item.result
    IN  After(ArrayItem(s, i, acc))

\* One member of an object, the opening quote of its key at position i;
\* acc holds the items read before it.  A key read twice keeps its place
\* and takes the last value.  The key k is followed by a colon at position
\* colon and the value v; after the value, at position after, the object
\* closes or a comma leads to the quote of the next key at position next.
ObjectMember(s, i, acc) ==
    LET NextKey(items, next) ==
            IF next > Len(s) THEN Ends(Fail)
            ELSE IF Ch(s, next) # "\"" THEN Ends(Fail)
            ELSE GoesOn(items, next)
        Closes(items, after) ==
            IF after > Len(s) THEN Ends(Fail)
            ELSE IF Ch(s, after) = "}"
                 THEN Ends(Good(PyDict(items), after + 1))
            ELSE IF Ch(s, after) # "," THEN Ends(Fail)
            ELSE NextKey(items, SkipWs(s, after + 1))
        Value(k, v) ==
            IF ~v.ok THEN Ends(v)
            ELSE Closes(SetItem(acc, k.value.val, v.value), SkipWs(s, v.end))
        Colon(k, colon) ==
            IF colon > Len(s) THEN Ends(Fail)
            ELSE IF Ch(s, colon) # ":" THEN Ends(Fail)
            ELSE Value(k, ScanOnce(s, SkipWs(s, colon + 1)))
        Key(k) ==
            IF ~k.ok THEN Ends(k)
            ELSE Colon(k, SkipWs(s, k.end))
    IN  Key(ScanString(s, i + 1, ""))

RECURSIVE ObjectMembers(_, _, _)
ObjectMembers(s, i, acc) ==
    LET After(member) ==
            CASE member.more -> ObjectMembers(s, member.pos, member.items)
              [] ~member.more -> member.result
    IN  After(ObjectMember(s, i, acc))

\* An object, position i after its opening brace.
ScanObject(s, i) ==
    LET Starts(first) ==
            IF first > Len(s) THEN Fail
            ELSE IF Ch(s, first) = "}" THEN Good(PyDict(<<>>), first + 1)
            ELSE IF Ch(s, first) # "\"" THEN Fail
            ELSE ObjectMembers(s, first, <<>>)
    IN  Starts(SkipWs(s, i))

\* An array, position i after its opening bracket.
ScanArray(s, i) ==
    LET Starts(first) ==
            IF first > Len(s) THEN Fail
            ELSE IF Ch(s, first) = "]" THEN Good(PyList(<<>>), first + 1)
            ELSE ArrayItems(s, first, <<>>)
    IN  Starts(SkipWs(s, i))

\* scan_once: the value that starts at position i.
ScanOnce(s, i) ==
    IF i > Len(s) THEN Fail
    ELSE CASE Ch(s, i) = "\"" -> ScanString(s, i + 1, "")
           [] Ch(s, i) = "{" -> ScanObject(s, i + 1)
           [] Ch(s, i) = "[" -> ScanArray(s, i + 1)
           [] Ch(s, i) = "n" ->
                 IF i + 3 <= Len(s) /\ SubSeq(s, i, i + 3) = "null"
                 THEN Good(PyNone, i + 4)
                 ELSE Fail
           [] Ch(s, i) \in OtherLiteralStart -> NotModelled
           [] OTHER -> Fail

\* Variant of JsonLoad: an empty file is taken as an empty catalog.
JsonLoadEmptyAsList(text) ==
    LET Whole(r) ==
            IF ~r.ok THEN r
            ELSE IF SkipWs(text, r.end) <= Len(text) THEN Fail
            ELSE r
    IN  IF SkipWs(text, 1) > Len(text) THEN Good(PyList(<<>>), Len(text) + 1)
        ELSE Whole(ScanOnce(text, SkipWs(text, 1)))

\* json.load(file): one value, with nothing but whitespace around it.
JsonLoad(text) ==
    LET Whole(r) ==
            IF ~r.ok THEN r
            ELSE IF SkipWs(text, r.end) <= Len(text) THEN Fail
            ELSE r
    IN  Whole(ScanOnce(text, SkipWs(text, 1)))

\* -------------------------------------------------------------- file system
\* The text writer that open(COURSE_FILE, 'w') returns collects the chunks
\* written to it and hands them on when they reach this size.
ChunkSize == 8192

\* The text writer: the bytes it has collected (pending), the bytes it has
\* handed on (written) and the end offsets of the pieces handed on (ends).
\* Each piece reaches the file as one write, in this order.
NewWriter == [pending |-> 0, written |-> 0, ends |-> <<>>]

\* The text writer hands on what it has collected.
Flush(w) ==
    [pending |-> 0, written |-> w.written + w.pending,
     ends |-> Append(w.ends, w.written + w.pending)]

\* file.write(chunk) for a chunk of n bytes: what is pending is handed on
\* first when the chunk would make it exceed ChunkSize, and what is pending
\* with the chunk is handed on when it has reached ChunkSize.
Collect(w, n) == [w EXCEPT !.pending = w.pending + n]
WriteChunk(w, n) ==
    IF w.pending > 0 /\ w.pending + n > ChunkSize
    THEN IF n >= ChunkSize THEN Flush(Collect(Flush(w), n))
                           ELSE Collect(Flush(w), n)
    ELSE IF w.pending + n >= ChunkSize THEN Flush(Collect(w, n))
                                       ELSE Collect(w, n)

\* The chunks a to b written one after the other (the first half is
\* evaluated before the second is begun; the writer never holds ChunkSize
\* bytes or more).
RECURSIVE WriteChunks(_, _, _, _)
WriteChunks(w, chunks, a, b) ==
    LET half == WriteChunks(w, chunks, a, (a + b) \div 2)
    IN  CASE a > b -> w
          [] a = b -> WriteChunk(w, Len(chunks[a]))
          [] a < b /\ half.pending < ChunkSize ->
                WriteChunks(half, chunks, (a + b) \div 2 + 1, b)

\* Closing the file hands on what is pending.
CloseWriter(w) == IF w.pending > 0 THEN Flush(w) ELSE w

\* The end offsets of the writes that json.dump and the close make.
FlushEnds(chunks) ==
    CloseWriter(WriteChunks(NewWriter, chunks, 1, Len(chunks))).ends

\* The end offset of the write that follows the first pos bytes.
NextWriteEnd(chunks, pos) ==
    LET ends == FlushEnds(chunks)
    IN  ends[CHOOSE i \in 1..Len(ends) :
                ends[i] > pos /\ \A j \in 1..(i - 1) : ends[j] <= pos]

\* Variant of WriteAt: the file is in append mode, every write goes to its end.
WriteAtEnd(data, off, text) == data \o text

\* write(2) of text at offset off of a file holding data: nothing for an
\* empty text; a gap beyond the end of the file reads as zero bytes.
WriteAt(data, off, text) ==
    IF Len(text) = 0 THEN data
    ELSE IF off >= Len(data) THEN data \o Rep(Nul, off - Len(data)) \o text
    ELSE Slice(data, 1, off) \o text
            \o Slice(data, off + Len(text) + 1, Len(data))

\* The size of a page of the file: a write(2) makes the bytes it writes
\* visible one page of the file after the other.
PageSize == 4096

\* ------------------------------------------------------------------- state
VARIABLES
    fileExists,   \* os.path.exists(COURSE_FILE)
    fileData,     \* contents of COURSE_FILE
    pc,           \* where each worker is in its handler
    op,           \* the handler a worker runs
    form,         \* add_course: request.form
    reqCode,      \* course_details: the <code> of the URL
    data,         \* save_courses: its argument
    courses,      \* the local variable `courses`
    wpos,         \* save_courses: bytes of the dump already in the file
    wend,         \* save_courses: where the write(2) in progress ends, or 0
    rd,           \* load_courses: the bytes read so far and the buffer size
    seen,         \* the number of saved records when the request arrived
    resp,         \* the response of the handler
    appended,     \* the records of the save_courses calls that returned
    accepted,     \* number of submissions that passed validation
    up            \* the server process is running

vars == <<fileExists, fileData, pc, op, form, reqCode, data, courses, wpos, wend,
          rd, seen, resp, appended, accepted, up>>

NoCourse == PyDict(<<>>)
NoList == PyList(<<>>)
NoForm == [k \in FormKeys |-> PyNone]
NoRead == [buf |-> "", cap |-> 0]
NoResp == [kind |-> "none", target |-> "", flash |-> "", body |-> PyNone]
Render(template, body) ==
    [kind |-> "render", target |-> template, flash |-> "", body |-> body]
Redirect(endpoint, category) ==
    [kind |-> "redirect", target |-> endpoint, flash |-> category, body |-> PyNone]
\* An exception that leaves the handler: Flask answers 500.
Unhandled(exc) ==
    [kind |-> "exception", target |-> exc, flash |-> "", body |-> PyNone]

Init ==
    /\ fileExists = FALSE
    /\ fileData = ""
    /\ pc = [p \in Procs |-> "idle"]
    /\ op = [p \in Procs |-> "none"]
    /\ form = [p \in Procs |-> NoForm]
    /\ reqCode = [p \in Procs |-> ""]
    /\ data = [p \in Procs |-> NoCourse]
    /\ courses = [p \in Procs |-> NoList]
    /\ wpos = [p \in Procs |-> 0]
    /\ wend = [p \in Procs |-> 0]
    /\ rd = [p \in Procs |-> NoRead]
    /\ seen = [p \in Procs |-> 0]
    /\ resp = [p \in Procs |-> NoResp]
    /\ appended = <<>>
    /\ accepted = 0
    /\ up = TRUE

\* ------------------------------------------------------------ load_courses
\* file.read() enlarges its buffer by at least this much.
SmallChunk == 8192

Min(a, b) == IF a < b THEN a ELSE b
Max(a, b) == IF a > b THEN a ELSE b

\* The size to which file.read() enlarges a buffer that holds n bytes.
NewBufferSize(n) ==
    n + Max(IF n > 65536 THEN n \div 8 ELSE 256 + n, SmallChunk)

\* The size of the buffer at the next read: it is enlarged when it is full.
ReadCapacity(r) ==
    IF Len(r.buf) >= r.cap THEN NewBufferSize(Len(r.buf)) ELSE r.cap

\* load_courses() on the file as it is now, no other request running during
\* the call: the value returned, or the exception raised.
load_courses(exists, text) ==
    IF ~exists THEN Good(PyList(<<>>), 0)
    ELSE JsonLoad(text)

\* `course['code'] == code` on one element of the iteration: "match",
\* "nomatch", or the exception the subscript raises.
TestCode(course, code) ==
    IF course.type # "dict" THEN "TypeError"
    ELSE IF ~HasKey(course, "code") THEN "KeyError"
    ELSE IF GetItem(course, "code") = PyStr(code) THEN "match"
    ELSE "nomatch"

\* What `for course in courses` iterates over: the items of a list, the
\* keys of a dict, the characters of a str.
Iterated(v) ==
    CASE v.type = "list" -> v.items
      [] v.type = "dict" -> [i \in 1..Len(v.items) |-> PyStr(v.items[i].key)]
      [] v.type = "str" -> [i \in 1..Len(v.val) |-> PyStr(Ch(v.val, i))]

\* Variant of FirstMatch: the last match is taken.
LastMatch(cs, code) ==
    IF \E i \in 1..Len(cs) : TestCode(cs[i], code) # "nomatch"
    THEN CHOOSE i \in 1..Len(cs) :
            /\ TestCode(cs[i], code) # "nomatch"
            /\ \A j \in (i + 1)..Len(cs) : TestCode(cs[j], code) = "nomatch"
    ELSE 0

\* next((course for course in courses if course['code'] == code), None):
\* the position at which the generator stops, with a match or with an
\* exception; 0 when it is exhausted (None).
FirstMatch(cs, code) ==
    IF \E i \in 1..Len(cs) : TestCode(cs[i], code) # "nomatch"
    THEN CHOOSE i \in 1..Len(cs) :
            /\ TestCode(cs[i], code) # "nomatch"
            /\ \A j \in 1..(i - 1) : TestCode(cs[j], code) = "nomatch"
    ELSE 0

\* The rest of course_details once load_courses has returned v; a course
\* found has the key 'code', so `if course:` takes it as true.
DetailsResponse(v, code) ==
    IF v.type = "NoneType" THEN Unhandled("TypeError")
    ELSE IF FirstMatch(Iterated(v), code) = 0
         THEN Redirect("course_catalog", "error")
    ELSE IF TestCode(Iterated(v)[FirstMatch(Iterated(v), code)], code) = "match"
         THEN Render("course_details.html",
                     Iterated(v)[FirstMatch(Iterated(v), code)])
    ELSE Unhandled(TestCode(Iterated(v)[FirstMatch(Iterated(v), code)], code))

\* The rest of course_catalog: len(courses), then the template.
CatalogResponse(v) ==
    IF v.type = "NoneType" THEN Unhandled("TypeError")
    ELSE Render("course_catalog.html", v)

\* Variant of LoadReturn: save_courses puts the new course first.
LoadReturnInsertFirst(p, v) ==
    CASE op[p] = "catalog" ->
            /\ resp' = [resp EXCEPT ![p] = CatalogResponse(v)]
            /\ pc' = [pc EXCEPT ![p] = "done"]
            /\ courses' = [courses EXCEPT ![p] = v]
      [] op[p] = "details" ->
            /\ resp' = [resp EXCEPT ![p] = DetailsResponse(v, reqCode[p])]
            /\ pc' = [pc EXCEPT ![p] = "done"]
            /\ courses' = [courses EXCEPT ![p] = v]
      [] op[p] = "add" ->
            IF v.type = "list"
            THEN /\ courses' = [courses EXCEPT ![p] = PyList(<<data[p]>> \o v.items)]
                 /\ pc' = [pc EXCEPT ![p] = "save_open"]
                 /\ resp' = resp
            ELSE /\ courses' = [courses EXCEPT ![p] = v]
                 /\ pc' = [pc EXCEPT ![p] = "done"]
                 /\ resp' = [resp EXCEPT ![p] = Unhandled("AttributeError")]

\* What the caller of load_courses does with the value returned.
LoadReturn(p, v) ==
    CASE op[p] = "catalog" ->
            /\ resp' = [resp EXCEPT ![p] = CatalogResponse(v)]
            /\ pc' = [pc EXCEPT ![p] = "done"]
            /\ courses' = [courses EXCEPT ![p] = v]
      [] op[p] = "details" ->
            /\ resp' = [resp EXCEPT ![p] = DetailsResponse(v, reqCode[p])]
            /\ pc' = [pc EXCEPT ![p] = "done"]
            /\ courses' = [courses EXCEPT ![p] = v]
      [] op[p] = "add" ->
            \* save_courses: courses.append(data), which only a list has
            IF v.type = "list"
            THEN /\ courses' = [courses EXCEPT ![p] = PyList(Append(v.items, data[p]))]
                 /\ pc' = [pc EXCEPT ![p] = "save_open"]
                 /\ resp' = resp
            ELSE /\ courses' = [courses EXCEPT ![p] = v]
                 /\ pc' = [pc EXCEPT ![p] = "done"]
                 /\ resp' = [resp EXCEPT ![p] = Unhandled("AttributeError")]

\* Variant of LoadExists: the file is opened without the test.
LoadExistsNoTest(p) ==
    /\ pc[p] = "load_exists"
    /\ pc' = [pc EXCEPT ![p] = "load_open"]
    /\ UNCHANGED <<courses, resp>>
    /\ UNCHANGED <<fileExists, fileData, op, form, reqCode, data, wpos, wend, rd,
                   seen, appended, accepted, up>>

\* `if not os.path.exists(COURSE_FILE): return []`
LoadExists(p) ==
    /\ pc[p] = "load_exists"
    /\ IF ~fileExists
       THEN LoadReturn(p, PyList(<<>>))
       ELSE /\ pc' = [pc EXCEPT ![p] = "load_open"]
            /\ UNCHANGED <<courses, resp>>
    /\ UNCHANGED <<fileExists, fileData, op, form, reqCode, data, wpos, wend, rd,
                   seen, appended, accepted, up>>

\* `open(COURSE_FILE, 'r')` and the start of file.read(): the buffer is made
\* one byte larger than the file is now, or SmallChunk for an empty file.
LoadOpen(p) ==
    /\ pc[p] = "load_open"
    /\ rd' = [rd EXCEPT ![p] =
                [buf |-> "",
                 cap |-> IF Len(fileData) > 0 THEN Len(fileData) + 1
                                              ELSE SmallChunk]]
    /\ pc' = [pc EXCEPT ![p] = "load_read"]
    /\ UNCHANGED <<fileExists, fileData, op, form, reqCode, data, courses,
                   wpos, wend, seen, resp, appended, accepted, up>>

\* Variant of LoadRead: a text that does not parse is taken as no courses.
LoadReadFallback(p) ==
    /\ pc[p] = "load_read"
    /\ \E cap \in {ReadCapacity(rd[p])} :
       \E got \in {Slice(fileData, Len(rd[p].buf) + 1, Min(Len(fileData), cap))} :
           IF Len(got) > 0
           THEN /\ rd' = [rd EXCEPT ![p] = [buf |-> rd[p].buf \o got, cap |-> cap]]
                /\ UNCHANGED <<pc, courses, resp>>
           ELSE /\ rd' = rd
                /\ \E r \in {JsonLoad(rd[p].buf)} :
                     IF r.ok THEN LoadReturn(p, r.value)
                             ELSE LoadReturn(p, PyList(<<>>))
    /\ UNCHANGED <<fileExists, fileData, op, form, reqCode, data, wpos, wend, seen,
                   appended, accepted, up>>

\* `return json.load(file)`: file.read() reads the file at its own offset
\* until a read returns nothing, each read filling the space left in the
\* buffer (cap is the size of the buffer, got the bytes of this read); the
\* text read is then decoded (r is what the decoder returns or raises).
LoadRead(p) ==
    /\ pc[p] = "load_read"
    /\ \E cap \in {ReadCapacity(rd[p])} :
       \E got \in {Slice(fileData, Len(rd[p].buf) + 1, Min(Len(fileData), cap))} :
           IF Len(got) > 0
           THEN /\ rd' = [rd EXCEPT ![p] = [buf |-> rd[p].buf \o got, cap |-> cap]]
                /\ UNCHANGED <<pc, courses, resp>>
           ELSE /\ rd' = rd
                /\ \E r \in {JsonLoad(rd[p].buf)} :
                     IF r.ok
                     THEN LoadReturn(p, r.value)
                     ELSE /\ resp' = [resp EXCEPT ![p] = Unhandled(r.err)]
                          /\ pc' = [pc EXCEPT ![p] = "done"]
                          /\ UNCHANGED courses
    /\ UNCHANGED <<fileExists, fileData, op, form, reqCode, data, wpos, wend, seen,
                   appended, accepted, up>>

\* ------------------------------------------------------------ save_courses
\* Variant of SaveOpen: the file is opened for update, not truncated.
SaveOpenNoTruncate(p) ==
    /\ pc[p] = "save_open"
    /\ \A q \in Procs \ {p} : wend[q] = 0
    /\ fileExists' = TRUE
    /\ fileData' = fileData
    /\ wpos' = [wpos EXCEPT ![p] = 0]
    /\ pc' = [pc EXCEPT ![p] = "save_dump"]
    /\ UNCHANGED <<wend, op, form, reqCode, data, courses, resp, appended, accepted, up, rd, seen>>

\* `open(COURSE_FILE, 'w')`: creates the file, or truncates it.
SaveOpen(p) ==
    /\ pc[p] = "save_open"
    /\ \A q \in Procs \ {p} : wend[q] = 0
    /\ fileExists' = TRUE
    /\ fileData' = ""
    /\ wpos' = [wpos EXCEPT ![p] = 0]
    /\ pc' = [pc EXCEPT ![p] = "save_dump"]
    /\ UNCHANGED <<wend, op, form, reqCode, data, courses, resp, appended, accepted, up, rd, seen>>

\* json.dump and the close of the file: the next piece of the text is
\* written at the offset of this writer (chunks are the strings the encoder
\* yields, text is their concatenation, end is where the piece ends).  A
\* text shorter than ChunkSize is one piece, written when the file is closed.
\* The write(2) of a piece fills the file page by page: one step writes up
\* to the next page boundary (stop), and a read or a stop of the process may
\* come between two steps.  While a write(2) is in progress no other write
\* to the file and no truncation of it begins.
SaveWrite(p) ==
    /\ pc[p] = "save_dump"
    /\ \A q \in Procs \ {p} : wend[q] = 0
    /\ \E chunks \in {IterEncode(courses[p], 0)} :
       \E text \in {Concat(chunks)} :
       \E end \in {IF wend[p] # 0 THEN wend[p]
                                  ELSE NextWriteEnd(chunks, wpos[p])} :
       \E stop \in {Min(end, (wpos[p] \div PageSize + 1) * PageSize)} :
           /\ fileData' = WriteAt(fileData, wpos[p], Slice(text, wpos[p] + 1, stop))
           /\ wpos' = [wpos EXCEPT ![p] = stop]
           /\ wend' = [wend EXCEPT ![p] = IF stop = end THEN 0 ELSE end]
           /\ pc' = [pc EXCEPT ![p] = IF stop = Len(text) THEN "save_close"
                                                          ELSE "save_dump"]
    /\ UNCHANGED <<fileExists, op, form, reqCode, data, courses, resp,
                   appended, accepted, up, rd, seen>>

\* The whole text is written and the file closed; save_courses returns and
\* add_course redirects to the catalog.
SaveClose(p) ==
    /\ pc[p] = "save_close"
    /\ appended' = Append(appended, data[p])
    /\ resp' = [resp EXCEPT ![p] = Redirect("course_catalog", "success")]
    /\ pc' = [pc EXCEPT ![p] = "done"]
    /\ UNCHANGED <<fileExists, fileData, op, form, reqCode, data, courses,
                   wpos, wend, accepted, up, rd, seen>>

\* ----------------------------------------------------------------- handlers
Running == {"load_exists", "load_open", "load_read", "save_open", "save_dump",
            "save_close"}

\* GET /catalog
course_catalog(p) ==
    /\ pc[p] = "idle"
    /\ op' = [op EXCEPT ![p] = "catalog"]
    /\ pc' = [pc EXCEPT ![p] = "load_exists"]
    /\ seen' = [seen EXCEPT ![p] = Len(appended)]
    /\ UNCHANGED <<fileExists, fileData, form, reqCode, data, courses, wpos, wend,
                   resp, appended, accepted, up, rd>>

\* GET /course/<code>
course_details(p, code) ==
    /\ pc[p] = "idle"
    /\ op' = [op EXCEPT ![p] = "details"]
    /\ reqCode' = [reqCode EXCEPT ![p] = code]
    /\ pc' = [pc EXCEPT ![p] = "load_exists"]
    /\ seen' = [seen EXCEPT ![p] = Len(appended)]
    /\ UNCHANGED <<fileExists, fileData, form, data, courses, wpos, wend, resp,
                   appended, accepted, up, rd>>

\* POST /add_course, up to the call of save_courses.
add_course(p, f) ==
    /\ pc[p] = "idle"
    /\ op' = [op EXCEPT ![p] = "add"]
    /\ form' = [form EXCEPT ![p] = f]
    /\ IF MissingFields(f)
       THEN /\ resp' = [resp EXCEPT ![p] = Redirect("add_course", "error")]
            /\ pc' = [pc EXCEPT ![p] = "done"]
            /\ UNCHANGED <<data, accepted>>
       ELSE /\ accepted < MaxAppends
            /\ accepted' = accepted + 1
            /\ data' = [data EXCEPT ![p] = NewCourse(f)]
            /\ pc' = [pc EXCEPT ![p] = "load_exists"]
            /\ resp' = resp
    /\ seen' = [seen EXCEPT ![p] = Len(appended)]
    /\ UNCHANGED <<fileExists, fileData, reqCode, courses, wpos, wend, appended, up, rd>>

\* GET /add_course
add_course_get(p) ==
    /\ pc[p] = "idle"
    /\ op' = [op EXCEPT ![p] = "add_get"]
    /\ resp' = [resp EXCEPT ![p] = Render("course_catalog.html", PyNone)]
    /\ pc' = [pc EXCEPT ![p] = "done"]
    /\ seen' = [seen EXCEPT ![p] = Len(appended)]
    /\ UNCHANGED <<fileExists, fileData, form, reqCode, data, courses, wpos, wend,
                   appended, accepted, up, rd>>

\* The response is sent and the worker is free again.
Respond(p) ==
    /\ pc[p] = "done"
    /\ pc' = [pc EXCEPT ![p] = "idle"]
    /\ op' = [op EXCEPT ![p] = "none"]
    /\ form' = [form EXCEPT ![p] = NoForm]
    /\ reqCode' = [reqCode EXCEPT ![p] = ""]
    /\ data' = [data EXCEPT ![p] = NoCourse]
    /\ courses' = [courses EXCEPT ![p] = NoList]
    /\ wpos' = [wpos EXCEPT ![p] = 0]
    /\ wend' = [wend EXCEPT ![p] = 0]
    /\ rd' = [rd EXCEPT ![p] = NoRead]
    /\ seen' = [seen EXCEPT ![p] = 0]
    /\ resp' = [resp EXCEPT ![p] = NoResp]
    /\ UNCHANGED <<fileExists, fileData, appended, accepted, up>>

\* The process stops in the middle of a request: what is in the file stays,
\* what was not yet written is lost.
Crash ==
    /\ up
    /\ \E p \in Procs : pc[p] \in Running
    /\ up' = FALSE
    /\ UNCHANGED <<fileExists, fileData, pc, op, form, reqCode, data, courses,
                   wpos, wend, resp, appended, accepted, rd, seen>>

\* The server is started again: no request is in flight.
Restart ==
    /\ ~up
    /\ up' = TRUE
    /\ pc' = [p \in Procs |-> "idle"]
    /\ op' = [p \in Procs |-> "none"]
    /\ form' = [p \in Procs |-> NoForm]
    /\ reqCode' = [p \in Procs |-> ""]
    /\ data' = [p \in Procs |-> NoCourse]
    /\ courses' = [p \in Procs |-> NoList]
    /\ wpos' = [p \in Procs |-> 0]
    /\ wend' = [p \in Procs |-> 0]
    /\ rd' = [p \in Procs |-> NoRead]
    /\ seen' = [p \in Procs |-> 0]
    /\ resp' = [p \in Procs |-> NoResp]
    /\ UNCHANGED <<fileExists, fileData, appended, accepted>>

LookupCodes == Codes \cup {"CS500"}

\* One request at a time.
NoneActive == \A q \in Procs : pc[q] = "idle"

Step(p) ==
    \/ LoadExists(p)
    \/ LoadOpen(p)
    \/ LoadRead(p)
    \/ SaveOpen(p)
    \/ SaveWrite(p)
    \/ SaveClose(p)
    \/ Respond(p)

Request(p) ==
    \/ course_catalog(p)
    \/ \E code \in LookupCodes : course_details(p, code)
    \/ \E f \in Forms : add_course(p, f)
    \/ add_course_get(p)

RequestFew(p) ==
    \/ course_catalog(p)
    \/ course_details(p, "CS101")
    \/ \E f \in FewForms : add_course(p, f)
    \/ add_course_get(p)

\* Requests served concurrently, the process never stops.
Next == \E p \in Procs : RequestFew(p) \/ Step(p)

Spec == Init /\ [][Next]_vars

\* Requests served one after the other, the process never stops.
NextSerial == \E p \in Procs : (NoneActive /\ Request(p)) \/ Step(p)

SpecSerial == Init /\ [][NextSerial]_vars

\* Requests served one after the other, the process may stop at any step,
\* inside a write(2) too.  A short course is submitted at any time, a long
\* one as the first or the second submission.
RequestCrash(p) ==
    \/ course_catalog(p)
    \/ course_details(p, "CS101")
    \/ \E f \in MixedForms : (f = ShortForm \/ accepted <= 1) /\ add_course(p, f)

NextCrash ==
    \/ up /\ \E p \in Procs : (NoneActive /\ RequestCrash(p)) \/ Step(p)
    \/ Crash
    \/ Restart

SpecCrash == Init /\ [][NextCrash]_vars

\* At most one add_course and one course_catalog at a time, the two
\* concurrent; the process never stops.  A short course is submitted at any
\* time, a long one as the first submission.
Submission(p) ==
    \E f \in MixedForms : (f = ShortForm \/ accepted = 0) /\ add_course(p, f)

NoOtherAdd(p) == \A q \in Procs \ {p} : op[q] # "add" \/ pc[q] \notin Running
NoOtherRead(p) == \A q \in Procs \ {p} : op[q] # "catalog" \/ pc[q] \notin Running

NextOneWriter ==
    \E p \in Procs :
        \/ (NoOtherRead(p) /\ course_catalog(p))
        \/ (NoOtherAdd(p) /\ Submission(p))
        \/ Step(p)

SpecOneWriter == Init /\ [][NextOneWriter]_vars

\* Two submissions served concurrently, one by each worker, short or long,
\* on a catalog that is new or holds one course.
InitRace ==
    /\ \/ fileExists = FALSE /\ fileData = "" /\ appended = <<>>
       \/ \E f \in {GoodForm(PyStr("CS101"), PyNone, PyNone)} :
             /\ fileExists = TRUE
             /\ fileData = JsonDump(PyList(<<NewCourse(f)>>))
             /\ appended = <<NewCourse(f)>>
    /\ pc = [p \in Procs |-> "idle"]
    /\ op = [p \in Procs |-> "none"]
    /\ form = [p \in Procs |-> NoForm]
    /\ reqCode = [p \in Procs |-> ""]
    /\ data = [p \in Procs |-> NoCourse]
    /\ courses = [p \in Procs |-> NoList]
    /\ wpos = [p \in Procs |-> 0]
    /\ wend = [p \in Procs |-> 0]
    /\ rd = [p \in Procs |-> NoRead]
    /\ seen = [p \in Procs |-> 0]
    /\ resp = [p \in Procs |-> NoResp]
    /\ accepted = 0
    /\ up = TRUE

NextRace ==
    \E p \in Procs :
        \/ \E f \in RaceForms : accepted < Cardinality(Procs) /\ add_course(p, f)
        \/ Step(p)

SpecRace == InitRace /\ [][NextRace]_vars

\* The decoder never meets a text outside the values modelled.
DecoderInDomain == fileExists => JsonLoad(fileData).err # "NotModelled"


\* ================================================================== claims
Saving(p) == op[p] = "add" /\ pc[p] \in {"save_dump", "save_close"}
Loaded(r) == r.ok
\* The catalog of the records rs.
Catalog(rs) == PyList(rs)
\* The records of a list but the last.
Front(v) == SubSeq(v.items, 1, Len(v.items) - 1)
\* The text save_courses writes for worker p.
Text(p) == JsonDump(courses[p])

\* C1: starting from an absent file, after any number of save_courses calls
\* made one after the other, load_courses returns exactly the records of
\* those calls, in call order: the catalog request that follows renders
\* them, and between two calls the file loads to them.
C1_SerialAppendsLoadInOrder ==
    /\ (\A p \in Procs : ~Saving(p)) =>
          LET r == load_courses(fileExists, fileData)
          IN  Loaded(r) /\ r.value = Catalog(appended)
    /\ \A p \in Procs :
          (pc[p] = "done" /\ op[p] = "catalog") =>
             resp[p] = Render("course_catalog.html", Catalog(appended))

\* Three different records were saved and a catalog request has loaded them.
C1_Witness ==
    \E p \in Procs :
        /\ pc[p] = "done" /\ op[p] = "catalog"
        /\ Len(appended) = 3
        /\ appended[1] # appended[2] /\ appended[2] # appended[3]
        /\ resp[p].body = Catalog(appended)

\* C4: save_courses(r) on a file holding the catalog C (C empty when the file
\* is absent), then load_courses(): the list loaded is C with r at the end,
\* r field for field.  Before the file is opened for writing it still holds
\* C, which is the list the call has loaded; once the call has returned the
\* file loads to that list with r appended.
C4_AppendThenLoad ==
    \A p \in Procs :
        op[p] = "add" =>
           /\ pc[p] = "save_open" =>
                 /\ Loaded(load_courses(fileExists, fileData))
                 /\ courses[p] =
                      Catalog(Append(load_courses(fileExists, fileData).value.items,
                                     data[p]))
           /\ (pc[p] = "done" /\ resp[p].flash = "success") =>
                 /\ Loaded(load_courses(fileExists, fileData))
                 /\ load_courses(fileExists, fileData).value = courses[p]
                 /\ courses[p].items[Len(courses[p].items)] = data[p]
                 /\ Len(data[p].items) = Len(CourseFields)
                 /\ \A i \in 1..Len(CourseFields) :
                       /\ data[p].items[i].key = CourseFields[i]
                       /\ data[p].items[i].value = form[p][FormField[i]]

\* A record with a None field and a field with quotes, a backslash and a
\* line break was appended to a catalog of two records.
C4_Witness ==
    \E p \in Procs :
        /\ op[p] = "add" /\ pc[p] = "done" /\ resp[p].flash = "success"
        /\ Len(courses[p].items) = 3
        /\ GetItem(data[p], "description") = PyStr("x")
        /\ GetItem(data[p], "prerequisites") = PyStr("C:\\lab \"one\"\n")
        /\ GetItem(courses[p].items[2], "description") = PyNone
        /\ load_courses(fileExists, fileData).value = courses[p]

\* A submission in which a required field is missing or empty.
RequiredNames == {"name", "instructor", "semester", "schedule", "code",
                  "grade", "class"}
Incomplete(f) == \E k \in RequiredNames : f[k] = PyNone \/ f[k] = PyStr("")

\* C3: a POST to add_course with a required field missing or empty is
\* answered by a redirect to the form with an error message, in the step
\* that receives it, and save_courses is not called: the file is the same
\* (existence and contents) after every step taken for that request.
C3_IncompleteSubmissionLeavesFile ==
    [][\A p \in Procs :
          /\ (pc[p] = "idle" /\ op'[p] = "add" /\ Incomplete(form'[p])) =>
                /\ pc'[p] = "done"
                /\ resp'[p] = Redirect("add_course", "error")
                /\ fileExists' = fileExists /\ fileData' = fileData
                /\ appended' = appended
          /\ (op[p] = "add" /\ Incomplete(form[p])) =>
                /\ pc[p] = "done" /\ pc'[p] \in {"done", "idle"}
                /\ fileExists' = fileExists /\ fileData' = fileData
                /\ appended' = appended]_vars

\* A submission with an empty classroom was refused; the catalog holds a course.
C3_Witness ==
    \E p \in Procs :
        /\ op[p] = "add" /\ pc[p] = "done"
        /\ form[p]["class"] = PyStr("")
        /\ \A k \in RequiredNames \ {"class"} : Truthy(form[p][k])
        /\ resp[p] = Redirect("add_course", "error")
        /\ Len(appended) = 1
        /\ load_courses(fileExists, fileData).value = Catalog(appended)

\* C5: load_courses() while the file does not exist returns the empty list,
\* raises nothing and does not create the file; the file comes into
\* existence only when save_courses opens it for writing.
C5_LoadAbsentFile ==
    [][/\ \A p \in Procs :
            (pc[p] = "load_exists" /\ ~fileExists /\ pc'[p] # "load_exists") =>
               /\ ~fileExists'
               /\ pc'[p] \in {"done", "save_open"}
               /\ resp'[p].kind # "exception"
               /\ courses'[p] = IF op[p] = "add" THEN Catalog(<<data[p]>>)
                                                 ELSE Catalog(<<>>)
               /\ op[p] = "catalog" =>
                     resp'[p] = Render("course_catalog.html", Catalog(<<>>))
       /\ (~fileExists /\ fileExists') =>
            \E p \in Procs :
               op[p] = "add" /\ pc[p] = "save_open" /\ pc'[p] = "save_dump"]_vars

\* A catalog request was answered with the empty list, and there is no file.
C5_Witness ==
    /\ ~fileExists
    /\ \E p \in Procs :
          /\ op[p] = "catalog" /\ pc[p] = "done"
          /\ resp[p] = Render("course_catalog.html", Catalog(<<>>))

\* The positions of the records rs that have the code asked for.
Hits(rs, code) ==
    {i \in 1..Len(rs) :
        \E k \in 1..Len(rs[i].items) :
           rs[i].items[k] = [key |-> "code", value |-> PyStr(code)]}

\* C6: course_details(code) renders the first record, in insertion order,
\* whose code is the one asked for, also when several records have it, and
\* answers NotFound (error message, redirect to the catalog) exactly when no
\* record has it; the file holds the same catalog afterwards.
C6_DetailsFirstMatch ==
    \A p \in Procs :
        (op[p] = "details" /\ pc[p] = "done") =>
           /\ Loaded(load_courses(fileExists, fileData))
           /\ load_courses(fileExists, fileData).value = Catalog(appended)
           /\ Hits(appended, reqCode[p]) # {} =>
                 \E i \in Hits(appended, reqCode[p]) :
                    /\ \A j \in Hits(appended, reqCode[p]) : i <= j
                    /\ resp[p] = Render("course_details.html", appended[i])
           /\ Hits(appended, reqCode[p]) = {} =>
                 resp[p] = Redirect("course_catalog", "error")

\* Two different records have the code asked for, and the first was rendered.
C6_Witness ==
    \E p \in Procs :
        /\ op[p] = "details" /\ pc[p] = "done"
        /\ \E i, j \in Hits(appended, reqCode[p]) :
              /\ i < j /\ appended[i] # appended[j]
              /\ \A k \in Hits(appended, reqCode[p]) : i <= k
              /\ resp[p].body = appended[i]

\* C7: every record that add_course persists has the nine fields, each of
\* them a string.
C7_EveryFieldIsString ==
    \A p \in Procs :
        (op[p] = "add" /\ pc[p] = "done" /\ resp[p].flash = "success") =>
           /\ Len(data[p].items) = Len(CourseFields)
           /\ \A i \in 1..Len(CourseFields) :
                 /\ data[p].items[i].key = CourseFields[i]
                 /\ data[p].items[i].value.type = "str"
           /\ \A i \in 1..Len(load_courses(fileExists, fileData).value.items) :
                 \A k \in 1..Len(CourseFields) :
                    load_courses(fileExists, fileData).value.items[i].items[k]
                       .value.type = "str"

\* C8: when the file holds malformed JSON, load_courses fails with the parse
\* error, which leaves the handler (no empty catalog instead); save_courses
\* fails in its load step, before the file is opened for writing, so the
\* file keeps its contents: a step that changes the file outside of a dump in
\* progress finds it absent or well-formed.
C8_MalformedFilePropagates ==
    [][/\ \A p \in Procs :
            (up /\ up' /\ pc[p] = "load_read" /\ ~JsonLoad(fileData).ok
                /\ pc'[p] # "load_read") =>
               /\ pc'[p] = "done"
               /\ resp'[p] = Unhandled("JSONDecodeError")
               /\ courses'[p] = courses[p] /\ wpos'[p] = wpos[p]
               /\ fileExists' = fileExists /\ fileData' = fileData
               /\ appended' = appended
       /\ ((fileExists' # fileExists \/ fileData' # fileData)
              /\ \A q \in Procs : pc[q] # "save_dump") =>
            (~fileExists \/ JsonLoad(fileData).ok)]_vars

\* An add_course request has failed with the parse error on a malformed
\* file: the first page of a dump, which the process stopping inside a
\* write(2) has left.
C8_Witness ==
    \E p \in Procs :
        /\ up /\ op[p] = "add" /\ pc[p] = "done"
        /\ ~MissingFields(form[p])
        /\ resp[p] = Unhandled("JSONDecodeError")
        /\ fileExists /\ ~JsonLoad(fileData).ok
        /\ Len(fileData) = PageSize

\* The dump of worker p was cut short by the process stopping.
CutShort(p) ==
    /\ ~up /\ op[p] = "add" /\ pc[p] = "save_dump"
    /\ wpos[p] < Len(Text(p))

\* C9: when the process stops after save_courses has opened the file for
\* writing and before the whole text is written, the file holds neither the
\* catalog of before the append nor the one of after it, and load_courses on
\* it fails with a parse error: the records stored before are lost.
C9_CrashMidWriteCorrupts ==
    \A p \in Procs :
        CutShort(p) =>
           /\ fileExists
           /\ fileData # JsonDump(Catalog(Front(courses[p])))
           /\ fileData # Text(p)
           /\ ~Loaded(load_courses(fileExists, fileData))
           /\ load_courses(fileExists, fileData).err = "JSONDecodeError"

\* The process stopped inside a write(2), after the first page of the dump
\* was written; the catalog had one record.
C9_Witness ==
    \E p \in Procs :
        /\ CutShort(p)
        /\ wend[p] > wpos[p]
        /\ Len(courses[p].items) = 2
        /\ Len(fileData) = PageSize

\* The save_courses call of p has returned.
Saved(p) == op[p] = "add" /\ pc[p] = "done" /\ resp[p].flash = "success"

\* Text a written from the start of a file that holds text b.
Overwritten(a, b) ==
    IF Len(a) >= Len(b) THEN a ELSE a \o SubSeq(b, Len(a) + 1, Len(b))

\* C2: two save_courses calls that both load the catalog before either
\* writes lose an update.  Once both calls have returned, the file does not
\* load, or it loads to the common catalog followed by one record only,
\* which is fewer records than calls have returned.  When each of the two
\* texts is written as one piece (it is shorter than the buffer of the text
\* writer), the file holds the text of one call, the record of the other
\* call being gone, or the shorter text followed by the end of the longer
\* one, which does not load.
C2_LostUpdate ==
    \A p, q \in Procs :
        (/\ p # q /\ Saved(p) /\ Saved(q)
         /\ Front(courses[p]) = Front(courses[q])) =>
           LET r == load_courses(fileExists, fileData)
           IN  /\ Loaded(r) =>
                     /\ r.value.type = "list"
                     /\ Len(r.value.items) = Len(Front(courses[p])) + 1
                     /\ Len(r.value.items) < Len(appended)
                     /\ Front(r.value) = Front(courses[p])
               /\ (Len(Text(p)) < ChunkSize /\ Len(Text(q)) < ChunkSize) =>
                     /\ fileData \in {Text(p), Text(q),
                                      Overwritten(Text(p), Text(q)),
                                      Overwritten(Text(q), Text(p))}
                     /\ Loaded(r) <=> fileData \in {Text(p), Text(q)}
                     /\ Loaded(r) => r.value \in {courses[p], courses[q]}

\* Both calls have returned after loading the same catalog of one record;
\* the file holds the record of q and not that of p.
C2_Witness ==
    \E p, q \in Procs :
        /\ p # q /\ Saved(p) /\ Saved(q)
        /\ Front(courses[p]) = Front(courses[q])
        /\ Len(Front(courses[p])) = 1
        /\ data[p] # data[q]
        /\ fileData = Text(q)
        /\ load_courses(fileExists, fileData).value = courses[q]
        /\ \A i \in 1..Len(courses[q].items) : courses[q].items[i] # data[p]

\* The load_courses call of a catalog or details request returns in this step.
ReaderReturns(p) ==
    /\ op[p] \in {"catalog", "details"}
    /\ pc[p] \in {"load_exists", "load_read"}
    /\ pc'[p] = "done"

\* The list returned is the catalog as a save_courses call left it: the one
\* that stood when the request arrived, or that of a call that has returned
\* since.
ReturnsBefore(p) ==
    /\ resp'[p].kind # "exception"
    /\ \E k \in seen[p]..Len(appended) :
          courses'[p] = Catalog(SubSeq(appended, 1, k))

\* The list returned is the catalog of after the append in progress.
ReturnsAfter(p) ==
    /\ resp'[p].kind # "exception"
    /\ \E q \in Procs : Saving(q) /\ courses'[p] = courses[q]

\* C10, as claimed: a load_courses call concurrent with a save_courses call
\* returns the catalog of before the append or the catalog of after it, and
\* never fails with a parse error.
C10_ReaderSeesBeforeOrAfter ==
    [][\A p \in Procs :
          ReaderReturns(p) => (ReturnsBefore(p) \/ ReturnsAfter(p))]_vars

\* C10, amended: the call returns the catalog of before an append that runs
\* during the call, or the catalog of after it, or fails with a parse error,
\* and then a save_courses call has run during the call (it is between its
\* open and its return, or it has returned since the request arrived); the
\* call never returns another list.
C10_ReaderSeesBeforeAfterOrParseError ==
    [][\A p \in Procs :
          ReaderReturns(p) =>
             \/ ReturnsBefore(p)
             \/ ReturnsAfter(p)
             \/ /\ resp'[p] = Unhandled("JSONDecodeError")
                /\ \/ \E q \in Procs : Saving(q)
                   \/ Len(appended) > seen[p]]_vars

\* A catalog request failed with the parse error on the first page of a
\* dump: it has read the file to its end while the write(2) of the dump was
\* in progress.
C10_Witness ==
    \E p, q \in Procs :
        /\ op[p] = "catalog" /\ pc[p] = "done"
        /\ resp[p] = Unhandled("JSONDecodeError")
        /\ Saving(q) /\ wend[q] > wpos[q]
        /\ Len(fileData) = PageSize
        /\ rd[p].buf = fileData

====
